---------------------------- MODULE Spec2Model ----------------------------
(***************************************************************************)
(* Model of the RSS ingestion batch (rss_batch_service.py) and of the      *)
(* retention sweeper (clean_up_old_posts.py) over their PostgreSQL tables  *)
(* posts, post_keywords, keywords, rss_feeds and batch_logs.               *)
(*                                                                         *)
(* Text is a sequence of one-character strings, a character outside       *)
(* ASCII being written as its code point ("U+0130").  A timestamp is a day *)
(* number.  A transaction keeps its uncommitted rows beside the committed  *)
(* tables until COMMIT adds them or ROLLBACK drops them.                   *)
(***************************************************************************)
EXTENDS Integers, Sequences, FiniteSets, Bags, TLC

(***************************************************************************)
(* Characters and strings                                                  *)
(***************************************************************************)
UpperChars ==
    <<"A", "B", "C", "D", "E", "F", "G", "H", "I", "J", "K", "L", "M",
      "N", "O", "P", "Q", "R", "S", "T", "U", "V", "W", "X", "Y", "Z">>

LowerChars ==
    <<"a", "b", "c", "d", "e", "f", "g", "h", "i", "j", "k", "l", "m",
      "n", "o", "p", "q", "r", "s", "t", "u", "v", "w", "x", "y", "z">>

Digits == {"0", "1", "2", "3", "4", "5", "6", "7", "8", "9"}

Range(s) == {s[i] : i \in 1..Len(s)}

\* letters outside ASCII: LATIN CAPITAL LETTER I WITH DOT ABOVE, HANGUL
\* SYLLABLE GO
OtherLetters == {"U+0130", "U+ACE0"}

\* COMBINING DOT ABOVE, a mark: not alphanumeric
CombiningDot == "U+0307"

IsLetter(c) == c \in Range(UpperChars) \cup Range(LowerChars) \cup OtherLetters

\* \w of the re module
IsWordChar(c) == IsLetter(c) \/ c \in Digits \/ c = "_"

\* \s of the re module, str.split() separators
IsSpace(c) == c \in {" ", "\t", "\n"}

\* str.lower() on one character
LowerOf(c) ==
    IF \E i \in 1..Len(UpperChars) : UpperChars[i] = c
    THEN LowerChars[CHOOSE i \in 1..Len(UpperChars) : UpperChars[i] = c]
    ELSE c

\* str.lower(): character by character; the lower case of U+0130 is the two
\* characters i, U+0307
RECURSIVE Lower(_)
Lower(s) ==
    IF s = <<>> THEN <<>>
    ELSE (IF Head(s) = "U+0130" THEN <<"i", CombiningDot>> ELSE <<LowerOf(Head(s))>>)
             \o Lower(Tail(s))

\* s[p .. p+Len(lit)-1] = lit
OccursAt(s, p, lit) ==
    /\ p >= 1
    /\ p + Len(lit) - 1 <= Len(s)
    /\ \A j \in 1..Len(lit) : s[p + j - 1] = lit[j]

\* `lit in s`
Contains(s, lit) == \E p \in 1..(Len(s) - Len(lit) + 1) : OccursAt(s, p, lit)

\* str.replace(c, r) for a single character c and a replacement string r
RECURSIVE ReplaceChar(_, _, _)
ReplaceChar(s, c, r) ==
    IF s = <<>> THEN <<>>
    ELSE (IF Head(s) = c THEN r ELSE <<Head(s)>>) \o ReplaceChar(Tail(s), c, r)

\* \b at position p: between s[p-1] and s[p], the ends counting as non-word
WordAt(s, i) == i >= 1 /\ i <= Len(s) /\ IsWordChar(s[i])

Boundary(s, p) == WordAt(s, p - 1) # WordAt(s, p)

\* first position >= p that holds no whitespace
RECURSIVE SkipSpaces(_, _)
SkipSpaces(s, p) ==
    IF p <= Len(s) /\ IsSpace(s[p]) THEN SkipSpaces(s, p + 1) ELSE p

\* the words parts[k..] joined by \s+ match at p; the position after the
\* match, or 0.  Every word starts with a non-blank, so \s+ takes the whole run.
RECURSIVE MatchParts(_, _, _, _)
MatchParts(s, p, parts, k) ==
    IF ~OccursAt(s, p, parts[k]) THEN 0
    ELSE LET q == p + Len(parts[k])
         IN  IF k = Len(parts) THEN q
             ELSE IF q <= Len(s) /\ IsSpace(s[q])
                  THEN MatchParts(s, SkipSpaces(s, q), parts, k + 1)
                  ELSE 0

\* re.search(r'\b' + w1 + r'\s+' + w2 ... + r'\b', s)
SearchPhrase(s, parts) ==
    \E p \in 1..Len(s) :
        /\ Boundary(s, p)
        /\ LET q == MatchParts(s, p, parts, 1)
           IN  q # 0 /\ Boundary(s, q)

\* re.search(r'\b' + re.escape(lit) + r'\b', s)
SearchWord(s, lit) ==
    \E p \in 1..(Len(s) - Len(lit) + 1) :
        /\ Boundary(s, p)
        /\ OccursAt(s, p, lit)
        /\ Boundary(s, p + Len(lit))

(***************************************************************************)
(* _clean_text and _extract_text_from_html                                 *)
(***************************************************************************)
\* re.search(r'<[^>]+>', s)
HasTag(s) ==
    \E i \in 1..Len(s) :
        /\ s[i] = "<"
        /\ \E j \in (i + 2)..Len(s) :
              /\ s[j] = ">"
              /\ \A m \in (i + 1)..(j - 1) : s[m] # ">"

\* " ".join(s.split()): runs of whitespace become one blank, the ends are trimmed
RECURSIVE CollapseFrom(_, _, _)
CollapseFrom(s, i, acc) ==
    IF i > Len(s) THEN acc
    ELSE IF IsSpace(s[i]) THEN CollapseFrom(s, i + 1, acc)
    ELSE CollapseFrom(s, i + 1,
             IF acc # <<>> /\ i > 1 /\ IsSpace(s[i - 1])
             THEN acc \o <<" ", s[i]>>
             ELSE acc \o <<s[i]>>)

CollapseSpaces(s) == CollapseFrom(s, 1, <<>>)

\* position of the first ">" at or after i, or 0
RECURSIVE FindClose(_, _)
FindClose(s, i) ==
    IF i > Len(s) THEN 0
    ELSE IF s[i] = ">" THEN i
    ELSE FindClose(s, i + 1)

\* html.parser opens a tag at "<" followed by a letter, "/" or "!"
TagStartsAt(s, i) ==
    /\ s[i] = "<"
    /\ i + 1 <= Len(s)
    /\ (IsLetter(s[i + 1]) \/ s[i + 1] \in {"/", "!"})
    /\ FindClose(s, i + 1) # 0

\* BeautifulSoup(...).get_text(separator=' ', strip=True): every tag separates
\* two text nodes, character references are decoded inside text nodes
RECURSIVE GetText(_, _, _)
GetText(s, i, acc) ==
    IF i > Len(s) THEN acc
    ELSE IF TagStartsAt(s, i)
         THEN GetText(s, FindClose(s, i + 1) + 1, acc \o <<" ">>)
    ELSE IF OccursAt(s, i, <<"&", "l", "t", ";">>)
         THEN GetText(s, i + 4, acc \o <<"<">>)
    ELSE IF OccursAt(s, i, <<"&", "g", "t", ";">>)
         THEN GetText(s, i + 4, acc \o <<">">>)
    ELSE IF OccursAt(s, i, <<"&", "a", "m", "p", ";">>)
         THEN GetText(s, i + 5, acc \o <<"&">>)
    ELSE GetText(s, i + 1, acc \o <<s[i]>>)

_extract_text_from_html(html) ==
    IF html = <<>> THEN <<>> ELSE CollapseSpaces(GetText(html, 1, <<>>))

_clean_text(text) ==
    IF text = <<>> THEN <<>>
    ELSE IF HasTag(text) THEN _extract_text_from_html(text)
    ELSE CollapseSpaces(text)


(***************************************************************************)
(* _match_keywords                                                         *)
(***************************************************************************)
W_go == <<"g", "o">>
W_in == <<"i", "n">>

\* go_contexts: each entry is the words of one pattern, joined by \s+
go_contexts ==
    { <<(<<"g", "o", "l", "a", "n", "g">>)>>,
      <<W_go, <<"p", "r", "o", "g", "r", "a", "m", "m", "i", "n", "g">> >>,
      <<W_go, <<"l", "a", "n", "g", "u", "a", "g", "e">> >>,
      <<W_go, <<"c", "o", "d", "e">> >>,
      <<W_go, <<"d", "e", "v", "e", "l", "o", "p", "e", "r">> >>,
      <<W_go, <<"p", "a", "c", "k", "a", "g", "e">> >>,
      <<W_go, <<"m", "o", "d", "u", "l", "e">> >>,
      <<W_go, <<"r", "u", "n", "t", "i", "m", "e">> >>,
      <<W_go, <<"g", "o", "r", "o", "u", "t", "i", "n", "e">> >>,
      <<W_go, <<"c", "h", "a", "n", "n", "e", "l">> >>,
      <<W_go, <<"i", "n", "t", "e", "r", "f", "a", "c", "e">> >>,
      <<(<<"p", "r", "o", "g", "r", "a", "m", "m", "i", "n", "g">>), W_in, W_go>>,
      <<(<<"w", "r", "i", "t", "t", "e", "n">>), W_in, W_go>>,
      <<(<<"b", "u", "i", "l", "t">>), <<"w", "i", "t", "h">>, W_go>> }

\* a "go" branch that also takes the bare word
MatchGoBare(search_text) ==
    \/ \E parts \in go_contexts : SearchPhrase(search_text, parts)
    \/ SearchWord(search_text, W_go)

\* the "go" branch: one of the contextual phrases occurs
MatchGo(search_text) == \E parts \in go_contexts : SearchPhrase(search_text, parts)

\* the compound branch: the name, its hyphens as blanks, its hyphens removed
MatchCompound(search_text, en_name) ==
    \E lit \in { en_name,
                 ReplaceChar(en_name, "-", <<" ">>),
                 ReplaceChar(en_name, "-", <<>>) } :
        SearchWord(search_text, lit)

\* the single-word branch: names of one or two characters are left out
MatchSingle(search_text, en_name) ==
    Len(en_name) > 2 /\ SearchWord(search_text, en_name)

\* en_variants, without the name itself
EnVariants(en_name) ==
    { ReplaceChar(ReplaceChar(en_name, ".", <<>>), " ", <<>>),
      ReplaceChar(en_name, ".", <<" ">>),
      ReplaceChar(en_name, " ", <<>>),
      Lower(en_name) } \ {en_name}

MatchVariants(search_text, en_name) ==
    \E variant \in EnVariants(en_name) :
        Len(variant) > 2 /\ SearchWord(search_text, variant)

\* one keyword of the loop: kw is [keyword_id, en_name, ko_name]
KeywordMatches(title, content, kw) ==
    LET search_text == Lower(title \o <<" ">> \o content)
        en_name     == Lower(kw.en_name)
        compound    == " " \in Range(en_name) \/ "-" \in Range(en_name)
    IN  \/ /\ en_name # <<>>
           /\ \/ en_name = W_go /\ MatchGo(search_text)
              \/ en_name # W_go /\ compound /\ MatchCompound(search_text, en_name)
              \/ en_name # W_go /\ ~compound /\ MatchSingle(search_text, en_name)
              \/ en_name # W_go /\ ~compound /\ MatchVariants(search_text, en_name)
        \/ /\ kw.ko_name # <<>>
           /\ (Contains(title, kw.ko_name) \/ Contains(content, kw.ko_name))

\* the set of keyword_id whose keyword matches title or content
_match_keywords(title, content, keywords) ==
    {kw.keyword_id : kw \in {k \in keywords : KeywordMatches(title, content, k)}}

(***************************************************************************)
(* _parse_feed                                                             *)
(***************************************************************************)
\* a field the feed entry does not carry (published_parsed, updated_parsed)
Absent == -1

\* settings["MAX_ITEMS_PER_FEED"], the default of config.get_batch_settings
MAX_ITEMS_PER_FEED == 50

\* timedelta(days=365)
OneYearDays == 365

\* a slice that keeps the whole list
TakeAll(s, n) == s

\* s[:n]
Take(s, n) == SubSeq(s, 1, IF Len(s) < n THEN Len(s) ELSE n)

\* a field from which datetime(*field[:6]) raises
Unparsable == -2

\* datetime(*field[:6]) inside try: None when it raises
ToDatetime(field) == IF field = Unparsable THEN Absent ELSE field

\* published_parsed if present, else updated_parsed, else None
PublishedDt(entry) ==
    IF entry.published_parsed # Absent THEN ToDatetime(entry.published_parsed)
    ELSE ToDatetime(entry.updated_parsed)

\* the dictionary appended for an entry that passed the date check
CandidatePost(entry) ==
    [ title        |-> _clean_text(entry.title),
      link         |-> entry.link,
      content      |-> _clean_text(entry.summary),
      published_at |-> PublishedDt(entry) ]

\* the loop over feed.entries[:max_items]; now is datetime.now()
RECURSIVE ParseEntries(_, _)
ParseEntries(entries, now) ==
    IF entries = <<>> THEN <<>>
    ELSE LET entry == Head(entries)
             dt    == PublishedDt(entry)
         IN  IF dt = Absent \/ dt < now - OneYearDays
             THEN ParseEntries(Tail(entries), now)
             ELSE <<CandidatePost(entry)>> \o ParseEntries(Tail(entries), now)

_parse_feed(doc, now) == ParseEntries(Take(doc, MAX_ITEMS_PER_FEED), now)


(***************************************************************************)
(* The data the environment supplies: keyword rows, feed rows and the feed *)
(* documents feedparser.parse may return                                   *)
(***************************************************************************)
\* sweeper runs in one behaviour
MaxSweeps == 1

\* the most posts a keyword has when the sweeper starts on stored tables
MaxStored == 32

\* datetime.now(), as a day number
Today == 400

\* feed_id of the rows of rss_feeds
FeedIds == {1, 2, 3}

\* rows of the keywords table: keyword_id, en_name, ko_name
KeywordIds == {1, 2, 3}

KeywordRow(k) ==
    CASE k = 1 -> [keyword_id |-> 1, en_name |-> <<"G", "o">>, ko_name |-> <<>>]
      [] k = 2 -> [keyword_id |-> 2, en_name |-> <<"N", "e", "x", "t", " ", "j", "s">>, ko_name |-> <<>>]
      [] OTHER -> [keyword_id |-> 3, en_name |-> <<"g", "o", "l", "a", "n", "g">>, ko_name |-> <<>>]

\* hashlib.sha256(link.encode('utf-8')).hexdigest(), its first eight digits
Links == {"http://a", "http://b"}

sha256_hexdigest(link) ==
    CASE link = "http://a" -> "54df484b"
      [] link = "http://b" -> "513ede80"
      [] OTHER             -> "e3b0c442"

\* entries of feed documents: two with the link http://a, of which only the
\* first names a keyword, one with markup in its summary, one older than a year
EntryGolang ==
    [ title |-> <<"I", " ", "l", "o", "v", "e", " ", "g", "o", "l", "a", "n", "g">>, link |-> "http://a", summary |-> <<>>,
      published_parsed |-> 300, updated_parsed |-> Absent ]

EntryShopping ==
    [ title |-> <<"l", "e", "t", "s", " ", "g", "o", " ", "s", "h", "o", "p", "p", "i", "n", "g">>, link |-> "http://a", summary |-> <<>>,
      published_parsed |-> Absent, updated_parsed |-> 200 ]

EntryNextJs ==
    [ title |-> <<"N", "e", "x", "t", " ", "j", "s", " ", "g", "u", "i", "d", "e">>, link |-> "http://b", summary |-> <<"<", "p", ">", "w", "r", "i", "t", "t", "e", "n", " ", "i", "n", " ", " ", "G", "o", "<", "/", "p", ">">>,
      published_parsed |-> 100, updated_parsed |-> Absent ]

EntryOld ==
    [ title |-> <<" ", "o", "l", "d", " ", " ", "n", "e", "w", "s", " ">>, link |-> "http://b", summary |-> <<>>,
      published_parsed |-> 10, updated_parsed |-> 300 ]

\* feed.entries of the documents feedparser.parse may return
FeedDocs ==
    { <<>>,
      <<EntryShopping>>,
      <<EntryGolang, EntryShopping>>,
      <<EntryOld, EntryGolang, EntryNextJs>> }

(***************************************************************************)
(* State                                                                   *)
(***************************************************************************)
\* database connections that may hold a saveBatch transaction: connection 1
\* is the orchestrator's, connection 2 a second batch process
Conns == {1, 2}

VARIABLES
    posts,          \* table posts: rows with post_id, link_hash, ...
    post_keywords,  \* table post_keywords: a bag of [post_id, keyword_id]
    keywords,       \* table keywords: keyword_id -> [is_active, deleted]
    rss_feeds,      \* table rss_feeds: feed_id -> [is_active, region, last_crawled_at]
    batch_logs,     \* table batch_logs: the rows in insertion order
    post_id_seq,    \* the last post_id handed out
    clock,          \* NOW(): the number of feed attempts started so far
    cache,          \* _active_keywords_cache of the service using a connection
    tx,             \* per connection: the _save_posts_and_mappings call in progress
    run,            \* locals of RssBatchService.run
    pf,             \* locals of RssBatchService._process_feed
    sw,             \* locals of clean_up_old_posts.run
    calls           \* the finished _save_posts_and_mappings calls of run, in order

vars == <<posts, post_keywords, keywords, rss_feeds, batch_logs, post_id_seq,
          clock, cache, tx, run, pf, sw, calls>>

dbvars == <<posts, post_keywords, keywords, rss_feeds, batch_logs, post_id_seq>>

(***************************************************************************)
(* SQL statements of _save_posts_and_mappings                              *)
(***************************************************************************)
\* link_hashes: one digest per candidate, in batch order
LinkHashes(batch) == [i \in 1..Len(batch) |-> sha256_hexdigest(batch[i].link)]

\* values_posts: one tuple per candidate, in batch order
ValuesPosts(batch, region, now) ==
    [i \in 1..Len(batch) |->
        [ title        |-> batch[i].title,
          link         |-> batch[i].link,
          link_hash    |-> sha256_hexdigest(batch[i].link),
          content      |-> batch[i].content,
          region       |-> region,
          published_at |-> IF batch[i].published_at = Absent THEN now
                           ELSE batch[i].published_at ]]

\* post_data_map[link_hash]: a later candidate overwrites an earlier one
PostDataMap(batch, h) ==
    LET last == CHOOSE i \in 1..Len(batch) :
                    /\ sha256_hexdigest(batch[i].link) = h
                    /\ \A j \in (i + 1)..Len(batch) : sha256_hexdigest(batch[j].link) # h
    IN  [title |-> batch[last].title, content |-> batch[last].content]

\* SELECT keyword_id, en_name, ko_name FROM keywords
\* WHERE is_active = TRUE AND deleted_at IS NULL
SelectActiveKeywords(kwtable) ==
    {KeywordRow(k) : k \in {x \in KeywordIds : kwtable[x].is_active /\ ~kwtable[x].deleted}}

\* SELECT link_hash FROM posts WHERE link_hash = ANY(link_hashes)
SelectExistingHashes(visible, link_hashes) ==
    {r.link_hash : r \in {x \in visible : x.link_hash \in Range(link_hashes)}}

\* the counts taken over distinct link_hash values instead of candidates
SaveCountsDistinct(link_hashes, existing_hashes) ==
    [ new_count       |-> Cardinality(Range(link_hashes) \ existing_hashes),
      duplicate_count |-> Cardinality(existing_hashes) ]

\* duplicate_count = len(existing_hashes); new_count = len(link_hashes) - duplicate_count
SaveCounts(link_hashes, existing_hashes) ==
    [ new_count       |-> Len(link_hashes) - Cardinality(existing_hashes),
      duplicate_count |-> Cardinality(existing_hashes) ]

\* INSERT INTO posts ... without a conflict clause: a row whose link_hash is
\* stored violates the unique index and aborts the statement
RECURSIVE InsertPostsPlain(_, _, _, _)
InsertPostsPlain(visible, values, seq, acc) ==
    IF values = <<>> THEN [rows |-> acc, seq |-> seq, err |-> FALSE]
    ELSE IF \E r \in visible \cup acc : r.link_hash = Head(values).link_hash
         THEN [rows |-> {}, seq |-> seq, err |-> TRUE]
         ELSE InsertPostsPlain(visible, Tail(values), seq + 1,
                  acc \cup {[post_id |-> seq + 1] @@ Head(values)})

\* INSERT INTO posts ... VALUES %s ON CONFLICT (link_hash) DO NOTHING: the rows
\* are taken in order, one whose link_hash is visible or was just inserted is
\* skipped; acc are the rows inserted so far, seq the last post_id handed out
RECURSIVE InsertPosts(_, _, _, _)
InsertPosts(visible, values, seq, acc) ==
    IF values = <<>> THEN [rows |-> acc, seq |-> seq, err |-> FALSE]
    ELSE IF \E r \in visible \cup acc : r.link_hash = Head(values).link_hash
         THEN InsertPosts(visible, Tail(values), seq, acc)
         ELSE InsertPosts(visible, Tail(values), seq + 1,
                  acc \cup {[post_id |-> seq + 1] @@ Head(values)})

\* the same SELECT without the restriction to new hashes
NewPostMappingsAll(visible, link_hashes, existing_hashes) ==
    {r \in visible : r.link_hash \in Range(link_hashes)}

\* SELECT post_id, link_hash FROM posts WHERE link_hash = ANY(link_hashes),
\* restricted to the hashes that were not in existing_hashes
NewPostMappings(visible, link_hashes, existing_hashes) ==
    {r \in visible : r.link_hash \in Range(link_hashes) \ existing_hashes}

\* post_keywords_values: (post_id, keyword_id) for every keyword matching the
\* title and content that post_data_map holds for the post's link_hash
PostKeywordsValues(new_rows, batch, active_keywords) ==
    UNION { LET post_data == PostDataMap(batch, r.link_hash)
            IN  { [post_id |-> r.post_id, keyword_id |-> k] :
                    k \in _match_keywords(post_data.title, post_data.content,
                                          active_keywords) } :
            r \in new_rows }

\* INSERT INTO post_keywords on a table that keeps every row it is given
InsertPostKeywordsAll(visible_pairs, values) == SetToBag(values)

\* INSERT INTO post_keywords ... ON CONFLICT (post_id, keyword_id) DO NOTHING:
\* the pairs that are not visible yet, as a bag
InsertPostKeywords(visible_pairs, values) == SetToBag(values \ visible_pairs)

\* conn.commit(): the uncommitted rows join the table
\* a COMMIT that loses the inserted posts
CommitPostsNone(table, pending) == table

CommitPosts(table, pending) == table \cup pending

CommitPostKeywords(table, pending) == table (+) pending

\* conn.rollback() that keeps what the transaction wrote
RollbackKeepsPosts(table, pending) == table \cup pending

\* conn.rollback(): the uncommitted rows are dropped
RollbackPosts(table, pending) == table

RollbackPostKeywords(table, pending) == table


(***************************************************************************)
(* _save_posts_and_mappings, one statement per step, on connection c       *)
(***************************************************************************)
NoSnapshot == [posts |-> {}, post_keywords |-> EmptyBag]

Snapshot == [posts |-> posts, post_keywords |-> post_keywords]

TxClosed ==
    [ pc |-> "closed", batch |-> <<>>, region |-> "", active_keywords |-> {},
      existing_hashes |-> {}, ins_posts |-> {}, ins_pks |-> EmptyBag,
      new_count |-> 0, duplicate_count |-> 0, error |-> "None",
      before |-> NoSnapshot ]

TxOpenPcs == {"keywords", "select", "insert", "assoc", "commit"}

\* what a statement of connection c reads: the committed rows and its own
Visible(c) == posts \cup tx[c].ins_posts

VisiblePairs(c) == BagToSet(post_keywords) \cup BagToSet(tx[c].ins_pks)

\* rows another open transaction has inserted and not committed
OthersPosts(c) == UNION {tx[d].ins_posts : d \in Conns \ {c}}

OthersPairs(c) == UNION {BagToSet(tx[d].ins_pks) : d \in Conns \ {c}}

\* conn = self._get_conn(); cur = conn.cursor()
TxOpen(c, batch, region) ==
    /\ tx[c].pc = "closed"
    /\ tx' = [tx EXCEPT ![c] = [TxClosed EXCEPT !.pc = "keywords", !.batch = batch,
                                                !.region = region, !.before = Snapshot]]

\* a _fetch_active_keywords that queries the table on every call
FetchActiveKeywordsAlways(cached, kwtable) == SelectActiveKeywords(kwtable)

\* _fetch_active_keywords: the cached list when there is one, else the rows
\* of the query
_fetch_active_keywords(cached, kwtable) ==
    IF cached.loaded THEN cached.rows ELSE SelectActiveKeywords(kwtable)

\* active_keywords = self._fetch_active_keywords()
TxFetchKeywords(c) ==
    /\ tx[c].pc = "keywords"
    /\ LET rows == _fetch_active_keywords(cache[c], keywords)
       IN  /\ cache' = [cache EXCEPT ![c] = [loaded |-> TRUE, rows |-> rows]]
           /\ tx' = [tx EXCEPT ![c].pc = "select", ![c].active_keywords = rows]
    /\ UNCHANGED <<dbvars, clock, run, pf, sw, calls>>

\* the SELECT of existing link_hash values, and the two counts
TxSelectExisting(c) ==
    /\ tx[c].pc = "select"
    /\ LET link_hashes     == LinkHashes(tx[c].batch)
           existing_hashes == SelectExistingHashes(Visible(c), link_hashes)
           counts          == SaveCounts(link_hashes, existing_hashes)
       IN  tx' = [tx EXCEPT ![c].pc = "insert",
                            ![c].existing_hashes = existing_hashes,
                            ![c].new_count = counts.new_count,
                            ![c].duplicate_count = counts.duplicate_count]
    /\ UNCHANGED <<dbvars, clock, cache, run, pf, sw, calls>>

\* the bulk INSERT INTO posts; it waits while another open transaction holds
\* an uncommitted row with one of its link_hash values
TxInsertPosts(c) ==
    /\ tx[c].pc = "insert"
    /\ \A r \in OthersPosts(c) : r.link_hash \notin Range(LinkHashes(tx[c].batch))
    /\ LET res == InsertPosts(Visible(c),
                              ValuesPosts(tx[c].batch, tx[c].region, Today),
                              post_id_seq, {})
       IN  IF res.err
           THEN /\ tx' = [tx EXCEPT ![c].pc = "raised", ![c].ins_posts = {},
                                    ![c].error = "UniqueViolation"]
                /\ posts' = RollbackPosts(posts, tx[c].ins_posts)
                /\ UNCHANGED post_id_seq
           ELSE /\ tx' = [tx EXCEPT ![c].pc = "assoc", ![c].ins_posts = res.rows]
                /\ post_id_seq' = res.seq
                /\ UNCHANGED posts
    /\ UNCHANGED <<post_keywords, keywords, rss_feeds, batch_logs, clock, cache,
                   run, pf, sw, calls>>

\* the SELECT of post_id, the matching and the bulk INSERT INTO post_keywords
TxInsertPostKeywords(c) ==
    /\ tx[c].pc = "assoc"
    /\ LET new_rows == NewPostMappings(Visible(c), LinkHashes(tx[c].batch),
                                       tx[c].existing_hashes)
           values   == PostKeywordsValues(new_rows, tx[c].batch, tx[c].active_keywords)
       IN  /\ values \cap OthersPairs(c) = {}
           /\ tx' = [tx EXCEPT ![c].pc = "commit",
                                ![c].ins_pks = InsertPostKeywords(VisiblePairs(c), values)]
    /\ UNCHANGED <<dbvars, clock, cache, run, pf, sw, calls>>

\* conn.commit(); return new_count, duplicate_count
TxCommit(c) ==
    /\ tx[c].pc = "commit"
    /\ posts' = CommitPosts(posts, tx[c].ins_posts)
    /\ post_keywords' = CommitPostKeywords(post_keywords, tx[c].ins_pks)
    /\ tx' = [tx EXCEPT ![c].pc = "returned", ![c].ins_posts = {},
                        ![c].ins_pks = EmptyBag]
    /\ UNCHANGED <<keywords, rss_feeds, batch_logs, post_id_seq, clock, cache,
                   run, pf, sw, calls>>

\* the statement the transaction is at raises: except: conn.rollback(); raise.
\* The keyword query cannot raise once the cache is loaded.
TxRaise(c) ==
    /\ tx[c].pc \in TxOpenPcs
    /\ tx[c].pc = "keywords" => ~cache[c].loaded
    /\ posts' = RollbackPosts(posts, tx[c].ins_posts)
    /\ post_keywords' = RollbackPostKeywords(post_keywords, tx[c].ins_pks)
    /\ tx' = [tx EXCEPT ![c].pc = "raised", ![c].ins_posts = {},
                        ![c].ins_pks = EmptyBag, ![c].error = "Exception"]
    /\ UNCHANGED <<keywords, rss_feeds, batch_logs, post_id_seq, clock, cache,
                   run, pf, sw, calls>>

\* one statement of the transaction on connection c, without a fault
TxStep(c) ==
    \/ TxFetchKeywords(c)
    \/ TxSelectExisting(c)
    \/ TxInsertPosts(c)
    \/ TxInsertPostKeywords(c)
    \/ TxCommit(c)


(***************************************************************************)
(* RssBatchService.run and _process_feed                                   *)
(***************************************************************************)
PfIdle ==
    [ pc |-> "idle", feed_id |-> 0, region |-> "", status |-> "SUCCESS",
      error_message |-> "None", collected |-> 0, new_count |-> 0, dup_count |-> 0,
      posts |-> <<>>, raised |-> FALSE ]

\* the orderings of a finite set
Orderings(S) ==
    {q \in [1..Cardinality(S) -> S] : \A i, j \in 1..Cardinality(S) : i # j => q[i] # q[j]}

\* SELECT feed_id, region, feed_url FROM rss_feeds WHERE is_active = TRUE
ActiveFeedIds == {f \in FeedIds : rss_feeds[f].is_active}

\* feeds = self.fetch_active_feeds(); the counters start at 0
FetchActiveFeeds ==
    /\ run.pc = "start"
    /\ sw.pc = "idle"
    /\ \E feeds \in Orderings(ActiveFeedIds) :
          run' = [run EXCEPT !.pc = "loop", !.feeds = feeds, !.idx = 1]
    /\ UNCHANGED <<dbvars, clock, cache, tx, pf, sw, calls>>

\* fetch_active_feeds raises: run() ends with the exception
FetchActiveFeedsRaises ==
    /\ run.pc = "start"
    /\ sw.pc = "idle"
    /\ run' = [run EXCEPT !.pc = "raised"]
    /\ UNCHANGED <<dbvars, clock, cache, tx, pf, sw, calls>>

AtNextFeed ==
    /\ run.pc = "loop"
    /\ pf.pc = "idle"
    /\ sw.pc = "idle"
    /\ run.idx <= Len(run.feeds)

\* _process_feed starts; posts = _parse_feed(url); collected = len(posts)
ProcessFeedParse ==
    /\ AtNextFeed
    /\ clock' = clock + 1
    /\ \E doc \in FeedDocs :
          LET parsed == _parse_feed(doc, Today)
              f      == run.feeds[run.idx]
          IN  pf' = [PfIdle EXCEPT !.pc = "save", !.feed_id = f,
                                   !.region = rss_feeds[f].region,
                                   !.posts = parsed, !.collected = Len(parsed)]
    /\ UNCHANGED <<dbvars, cache, tx, run, sw, calls>>

\* the except clause of _process_feed
Failed(p) == [p EXCEPT !.pc = "log", !.status = "FAILED", !.error_message = "str(e)"]

\* _parse_feed raises
ProcessFeedParseRaises ==
    /\ AtNextFeed
    /\ clock' = clock + 1
    /\ LET f == run.feeds[run.idx]
       IN  pf' = Failed([PfIdle EXCEPT !.feed_id = f, !.region = rss_feeds[f].region,
                                       !.raised = TRUE])
    /\ UNCHANGED <<dbvars, cache, tx, run, sw, calls>>

\* a finished call of _save_posts_and_mappings
CallRecord(batch, ok, new_count, duplicate_count, before) ==
    [ batch |-> batch, ok |-> ok, new_count |-> new_count,
      duplicate_count |-> duplicate_count, before |-> before, after |-> Snapshot ]

\* if not posts: return 0, 0
SaveEmpty ==
    /\ pf.pc = "save"
    /\ pf.posts = <<>>
    /\ pf' = [pf EXCEPT !.pc = "log", !.new_count = 0, !.dup_count = 0]
    /\ calls' = Append(calls, CallRecord(<<>>, TRUE, 0, 0, Snapshot))
    /\ UNCHANGED <<dbvars, clock, cache, tx, run, sw>>

\* self._get_conn() succeeds
SaveConnect ==
    /\ pf.pc = "save"
    /\ pf.posts # <<>>
    /\ TxOpen(1, pf.posts, pf.region)
    /\ pf' = [pf EXCEPT !.pc = "persist"]
    /\ UNCHANGED <<dbvars, clock, cache, run, sw, calls>>

\* self._get_conn() raises: no transaction was opened
SaveConnectRaises ==
    /\ pf.pc = "save"
    /\ pf.posts # <<>>
    /\ pf' = Failed([pf EXCEPT !.raised = TRUE])
    /\ calls' = Append(calls, CallRecord(pf.posts, FALSE, 0, 0, Snapshot))
    /\ UNCHANGED <<dbvars, clock, cache, tx, run, sw>>

\* the exception a statement of the transaction raises, or the statement
SaveStep ==
    /\ pf.pc = "persist"
    /\ (TxRaise(1) \/ TxStep(1))

\* new_count, dup_count = self._save_posts_and_mappings(posts, region)
SaveReturn ==
    /\ pf.pc = "persist"
    /\ tx[1].pc = "returned"
    /\ pf' = [pf EXCEPT !.pc = "log", !.new_count = tx[1].new_count,
                        !.dup_count = tx[1].duplicate_count]
    /\ calls' = Append(calls, CallRecord(tx[1].batch, TRUE, tx[1].new_count,
                                         tx[1].duplicate_count, tx[1].before))
    /\ tx' = [tx EXCEPT ![1] = TxClosed]
    /\ UNCHANGED <<dbvars, clock, cache, run, sw>>

\* _save_posts_and_mappings raised: the except clause of _process_feed
SaveRaised ==
    /\ pf.pc = "persist"
    /\ tx[1].pc = "raised"
    /\ pf' = Failed([pf EXCEPT !.raised = TRUE])
    /\ calls' = Append(calls, CallRecord(tx[1].batch, FALSE, 0, 0, tx[1].before))
    /\ tx' = [tx EXCEPT ![1] = TxClosed]
    /\ UNCHANGED <<dbvars, clock, cache, run, sw>>

\* a row whose severity does not follow the status
CrawlerLogInfo(p) ==
    [ job_type       |-> "RSS_CRAWLER",
      log_level      |-> "INFO",
      status         |-> p.status,
      affected_count |-> p.collected,
      detail         |-> [feed_id |-> p.feed_id, collected |-> p.collected],
      error_message  |-> p.error_message ]

\* the row _log_batch inserts
CrawlerLog(p) ==
    [ job_type       |-> "RSS_CRAWLER",
      log_level      |-> IF p.status = "FAILED" THEN "ERROR" ELSE "INFO",
      status         |-> p.status,
      affected_count |-> p.collected,
      detail         |-> [feed_id |-> p.feed_id, collected |-> p.collected],
      error_message  |-> p.error_message ]

\* finally: self._log_batch(feed_id, url, status, collected, error_message)
LogBatch ==
    /\ pf.pc = "log"
    /\ batch_logs' = Append(batch_logs, CrawlerLog(pf))
    /\ pf' = [pf EXCEPT !.pc = "touch"]
    /\ UNCHANGED <<posts, post_keywords, keywords, rss_feeds, post_id_seq, clock,
                   cache, tx, run, sw, calls>>

\* an except clause of run that gives up the run
RunExceptAborts == [run EXCEPT !.pc = "raised"]

\* the except clause of run: fail_count += 1, on to the next feed
RunExcept == [run EXCEPT !.fail_count = @ + 1, !.idx = @ + 1]

\* _log_batch raises inside finally: the exception leaves _process_feed
\* (log_errors counts these exits; the code keeps no such counter)
LogBatchRaises ==
    /\ pf.pc = "log"
    /\ run' = [RunExcept EXCEPT !.log_errors = @ + 1]
    /\ pf' = PfIdle
    /\ UNCHANGED <<dbvars, clock, cache, tx, sw, calls>>

\* UPDATE rss_feeds SET last_crawled_at = NOW() WHERE feed_id = %s
TouchedFeeds(feeds, feed_id, now) == [feeds EXCEPT ![feed_id].last_crawled_at = now]

\* self._touch_last_crawled(feed_id); return new_count, dup_count; in run:
\* success_count += 1, the totals grow, on to the next feed
TouchLastCrawled ==
    /\ pf.pc = "touch"
    /\ rss_feeds' = TouchedFeeds(rss_feeds, pf.feed_id, clock)
    /\ run' = [run EXCEPT !.success_count = @ + 1,
                          !.total_new = @ + pf.new_count,
                          !.total_duplicate = @ + pf.dup_count,
                          !.idx = @ + 1]
    /\ pf' = PfIdle
    /\ UNCHANGED <<posts, post_keywords, keywords, batch_logs, post_id_seq, clock,
                   cache, tx, sw, calls>>

\* _touch_last_crawled raises inside finally
TouchLastCrawledRaises ==
    /\ pf.pc = "touch"
    /\ run' = RunExcept
    /\ pf' = PfIdle
    /\ UNCHANGED <<dbvars, clock, cache, tx, sw, calls>>

\* the two summary lines after the loop
Summary ==
    /\ run.pc = "loop"
    /\ pf.pc = "idle"
    /\ sw.pc = "idle"
    /\ run.idx > Len(run.feeds)
    /\ run' = [run EXCEPT !.pc = "done"]
    /\ UNCHANGED <<dbvars, clock, cache, tx, pf, sw, calls>>

\* one step of the batch process
Orchestrator ==
    \/ FetchActiveFeeds
    \/ FetchActiveFeedsRaises
    \/ ProcessFeedParse
    \/ ProcessFeedParseRaises
    \/ SaveEmpty
    \/ SaveConnect
    \/ SaveConnectRaises
    \/ SaveStep
    \/ SaveReturn
    \/ SaveRaised
    \/ LogBatch
    \/ LogBatchRaises
    \/ TouchLastCrawled
    \/ TouchLastCrawledRaises
    \/ Summary


(***************************************************************************)
(* clean_up_old_posts.run                                                  *)
(***************************************************************************)
\* OFFSET 30 of SQL_FIND_OLD_POSTS
RetainLimit == 30

\* the locals of run, and what the run has done so far: before is the
\* tables when the run started, prev the tables when the pass (in the cap
\* pass: the keyword last_kw) that finished last began or, after a failure,
\* when the failing statement began; undone counts the deletions a rollback
\* took back; raised tells that the last run ended with an exception, and
\* after_success that the run before this one returned; log_errors counts
\* the runs whose _log_batch wrote no row; limit is the number of runs that
\* start
SwIdle ==
    [ pc |-> "idle", runs |-> 0, limit |-> MaxSweeps, kws |-> <<>>,
      total_keywords |-> 0, total_deleted_posts |-> 0, total_deleted_mappings |-> 0,
      before |-> NoSnapshot, prev |-> NoSnapshot, last_kw |-> 0, undone |-> 0,
      raised |-> FALSE, after_success |-> FALSE, log_errors |-> 0 ]

\* the rows of post_keywords of the posts in S
PairsOfPosts(K, S) == {pk \in BagToSet(K) : \E p \in S : pk.post_id = p.post_id}

\* DELETE FROM post_keywords for the pairs in D
DeletePairs(K, D) == [pk \in BagToSet(K) \ D |-> K[pk]]

\* the number of rows of K among the pairs in D
RECURSIVE RowCount(_, _)
RowCount(K, D) ==
    IF D = {} THEN 0
    ELSE LET pk == CHOOSE x \in D : TRUE
         IN  K[pk] + RowCount(K, D \ {pk})

\* SQL_FIND_ACTIVE_KEYWORDS: SELECT keyword_id FROM keywords WHERE is_active = TRUE
FindActiveKeywords(kwtable) == {k \in KeywordIds : kwtable[k].is_active}

\* SQL_COUNT_POSTS, SQL_FIND_OLD_POSTS: the posts joined to keyword k
JoinedPosts(P, K, k) ==
    {p \in P : [post_id |-> p.post_id, keyword_id |-> k] \in BagToSet(K)}

\* ORDER BY p.published_at DESC OFFSET 30: the m oldest posts of S, every way
\* the database may order posts of equal published_at
RECURSIVE OldestSets(_, _)
OldestSets(S, m) ==
    IF m <= 0 \/ S = {} THEN {{}}
    ELSE UNION { {T \cup {p} : T \in OldestSets(S \ {p}, m - 1)} :
                 p \in {x \in S : \A y \in S : x.published_at <= y.published_at} }

\* a query that returns one overflow row at most
OldPostSetsOne(P, K, k) ==
    LET joined == JoinedPosts(P, K, k)
    IN  OldestSets(joined, IF Cardinality(joined) > RetainLimit THEN 1 ELSE 0)

OldPostSets(P, K, k) ==
    LET joined == JoinedPosts(P, K, k)
    IN  OldestSets(joined, Cardinality(joined) - RetainLimit)

\* the loop over old_posts of keyword k: each pair (post, k) is deleted, and the
\* post too when no other pair of it is left
CapKeywordPairs(K, old, k) ==
    DeletePairs(K, {[post_id |-> p.post_id, keyword_id |-> k] : p \in old})

\* a loop that deletes every overflow post
CapKeywordDeletedAll(K, old, k) == old

CapKeywordDeleted(K, old, k) ==
    {p \in old : PairsOfPosts(CapKeywordPairs(K, old, k), {p}) = {}}

\* a query that returns every post
ZombiePostsAll(P, K) == P

\* SQL_FIND_ZOMBIE_POSTS: posts without a row in post_keywords
ZombiePosts(P, K) == {p \in P : PairsOfPosts(K, {p}) = {}}

\* a query for the inactive-only pass that finds no post
PostsWithoutActiveKeywordsNone(P, K, kwtable) == {}

\* SQL_FIND_POSTS_WITHOUT_ACTIVE_KEYWORDS: the posts of the join rows whose
\* keyword has no row with is_active = TRUE
PostsWithoutActiveKeywords(P, K, kwtable) ==
    {p \in P : \E pk \in PairsOfPosts(K, {p}) :
                  ~(pk.keyword_id \in DOMAIN kwtable /\ kwtable[pk.keyword_id].is_active)}

\* a row that counts the deletions the rollback took back too
CleanupLogAttempted(status, w, error_message) ==
    [ job_type       |-> "CLEANUP_OLD_POSTS",
      log_level      |-> IF status = "FAILED" THEN "ERROR" ELSE "INFO",
      status         |-> status,
      affected_count |-> w.total_deleted_posts + w.undone,
      detail         |-> [ total_keywords         |-> w.total_keywords,
                           total_deleted_posts    |-> w.total_deleted_posts + w.undone,
                           total_deleted_mappings |-> w.total_deleted_mappings ],
      error_message  |-> error_message ]

\* the row _log_batch of the sweeper inserts
CleanupLog(status, w, error_message) ==
    [ job_type       |-> "CLEANUP_OLD_POSTS",
      log_level      |-> IF status = "FAILED" THEN "ERROR" ELSE "INFO",
      status         |-> status,
      affected_count |-> w.total_deleted_posts,
      detail         |-> [ total_keywords         |-> w.total_keywords,
                           total_deleted_posts    |-> w.total_deleted_posts,
                           total_deleted_mappings |-> w.total_deleted_mappings ],
      error_message  |-> error_message ]

\* the posts a pass has deleted and not yet committed when a statement of
\* it raises: some of the posts the pass selects
PassSelections(P, K, w, kwtable) ==
    CASE w.pc = "cap"      -> UNION {SUBSET old : old \in OldPostSets(P, K, Head(w.kws))}
      [] w.pc = "zombie"   -> SUBSET ZombiePosts(P, K)
      [] w.pc = "inactive" -> SUBSET PostsWithoutActiveKeywords(P, K, kwtable)
      [] OTHER             -> {{}}

\* the pairs deleted with them
PassPairs(K, w, D) ==
    CASE w.pc = "cap"      -> {[post_id |-> p.post_id, keyword_id |-> Head(w.kws)] : p \in D}
      [] w.pc = "inactive" -> PairsOfPosts(K, D)
      [] OTHER             -> {}

\* the posts among them whose row is deleted
PassPosts(K, w, D) ==
    IF w.pc = "cap" THEN CapKeywordDeleted(K, D, Head(w.kws)) ELSE D

\* a rollback that takes nothing back
SweepRollbackPostsNone(P, pending) == P

\* conn.rollback(): the rows deleted since the last commit are back
SweepRollbackPosts(P, pending) == P \cup pending

SweepRollbackPairs(K, pending) == K (+) pending

\* run is over: its locals are gone; logged tells whether a row was written
SweepEnded(w, logged, raised) ==
    [SwIdle EXCEPT !.runs = w.runs + 1, !.limit = w.limit,
                   !.raised = raised, !.undone = w.undone,
                   !.log_errors = IF logged THEN w.log_errors ELSE w.log_errors + 1]

\* a sweeper run starts between two feeds of the batch run or after it:
\* conn = _get_conn(), the totals at 0
SweepStart ==
    /\ sw.pc = "idle"
    /\ sw.runs < sw.limit
    /\ pf.pc = "idle"
    /\ run.pc = "done" \/ (run.pc = "loop" /\ run.idx > 1)
    /\ sw' = [SwIdle EXCEPT !.pc = "keywords", !.runs = sw.runs, !.limit = sw.limit,
                            !.log_errors = sw.log_errors,
                            !.after_success = (sw.runs > 0 /\ ~sw.raised),
                            !.before = Snapshot, !.prev = Snapshot]
    /\ UNCHANGED <<dbvars, clock, cache, tx, run, pf, calls>>

\* cur.execute(SQL_FIND_ACTIVE_KEYWORDS); total_keywords = len(keywords)
SweepFindKeywords ==
    /\ sw.pc = "keywords"
    /\ \E kws \in Orderings(FindActiveKeywords(keywords)) :
          sw' = [sw EXCEPT !.pc = IF kws = <<>> THEN "zombie" ELSE "cap",
                           !.kws = kws, !.total_keywords = Len(kws)]
    /\ UNCHANGED <<dbvars, clock, cache, tx, run, pf, calls>>

\* one keyword of the cap pass, with its conn.commit()
SweepCapKeyword ==
    /\ sw.pc = "cap"
    /\ LET k == Head(sw.kws)
       IN  \E old \in OldPostSets(posts, post_keywords, k) :
              /\ post_keywords' = CapKeywordPairs(post_keywords, old, k)
              /\ posts' = posts \ CapKeywordDeleted(post_keywords, old, k)
              /\ sw' = [sw EXCEPT
                          !.pc = IF Tail(sw.kws) = <<>> THEN "zombie" ELSE "cap",
                          !.kws = Tail(sw.kws),
                          !.prev = Snapshot,
                          !.last_kw = k,
                          !.total_deleted_posts =
                              @ + Cardinality(CapKeywordDeleted(post_keywords, old, k)),
                          !.total_deleted_mappings = @ + Cardinality(old)]
    /\ UNCHANGED <<keywords, rss_feeds, batch_logs, post_id_seq, clock, cache, tx,
                   run, pf, calls>>

\* the zombie pass, with its conn.commit()
SweepZombie ==
    /\ sw.pc = "zombie"
    /\ LET zombie_posts == ZombiePosts(posts, post_keywords)
       IN  /\ posts' = posts \ zombie_posts
           /\ sw' = [sw EXCEPT !.pc = "inactive", !.prev = Snapshot,
                               !.total_deleted_posts = @ + Cardinality(zombie_posts)]
    /\ UNCHANGED <<post_keywords, keywords, rss_feeds, batch_logs, post_id_seq,
                   clock, cache, tx, run, pf, calls>>

\* the pass over posts without an active keyword, with its conn.commit()
SweepInactive ==
    /\ sw.pc = "inactive"
    /\ LET inactive_posts == PostsWithoutActiveKeywords(posts, post_keywords, keywords)
           pairs          == PairsOfPosts(post_keywords, inactive_posts)
       IN  /\ post_keywords' = DeletePairs(post_keywords, pairs)
           /\ posts' = posts \ inactive_posts
           /\ sw' = [sw EXCEPT
                       !.pc = "log", !.prev = Snapshot,
                       !.total_deleted_posts = @ + Cardinality(inactive_posts),
                       !.total_deleted_mappings = @ + RowCount(post_keywords, pairs)]
    /\ UNCHANGED <<keywords, rss_feeds, batch_logs, post_id_seq, clock, cache, tx,
                   run, pf, calls>>

\* _log_batch(status, ...) at the end of the try body writes the SUCCESS row
SweepLog ==
    /\ sw.pc = "log"
    /\ batch_logs' = Append(batch_logs, CleanupLog("SUCCESS", sw, "None"))
    /\ sw' = SweepEnded(sw, TRUE, FALSE)
    /\ UNCHANGED <<posts, post_keywords, keywords, rss_feeds, post_id_seq, clock,
                   cache, tx, run, pf, calls>>

\* that _log_batch raises: the except clause rolls back nothing, calls
\* _log_batch with FAILED, which writes its row or raises too, and raises
SweepLogRaises ==
    /\ sw.pc = "log"
    /\ \E logged \in BOOLEAN :
          /\ batch_logs' = IF logged
                           THEN Append(batch_logs, CleanupLog("FAILED", sw, "str(e)"))
                           ELSE batch_logs
          /\ sw' = SweepEnded(sw, logged, TRUE)
    /\ UNCHANGED <<posts, post_keywords, keywords, rss_feeds, post_id_seq, clock,
                   cache, tx, run, pf, calls>>

\* a statement of the current pass raises after the pass has deleted the posts
\* in D: conn.rollback(), the FAILED row with the totals committed so far
\* (or no row, when that _log_batch raises), raise
SweepRaises ==
    /\ sw.pc \in {"keywords", "cap", "zombie", "inactive"}
    /\ \E D \in PassSelections(posts, post_keywords, sw, keywords), logged \in BOOLEAN :
          LET del_posts == PassPosts(post_keywords, sw, D)
              del_pairs == PassPairs(post_keywords, sw, D)
              failed    == [sw EXCEPT !.undone = Cardinality(del_posts)]
          IN  /\ posts' = SweepRollbackPosts(posts \ del_posts, del_posts)
              /\ post_keywords' =
                     SweepRollbackPairs(DeletePairs(post_keywords, del_pairs),
                                        [pk \in del_pairs |-> post_keywords[pk]])
              /\ batch_logs' = IF logged
                               THEN Append(batch_logs, CleanupLog("FAILED", failed, "str(e)"))
                               ELSE batch_logs
              /\ sw' = SweepEnded(failed, logged, TRUE)
    /\ UNCHANGED <<keywords, rss_feeds, post_id_seq, clock, cache, tx, run, pf, calls>>

\* one step of the sweeper process
Sweeper ==
    \/ SweepStart
    \/ SweepFindKeywords
    \/ SweepCapKeyword
    \/ SweepZombie
    \/ SweepInactive
    \/ SweepLog
    \/ SweepLogRaises
    \/ SweepRaises

(***************************************************************************)
(* The batch run with sweeper runs between its feeds                       *)
(***************************************************************************)
Region(f) == IF f = 1 THEN "korean" ELSE "global"

RunStart ==
    [ pc |-> "start", feeds |-> <<>>, idx |-> 1, success_count |-> 0,
      fail_count |-> 0, total_new |-> 0, total_duplicate |-> 0, log_errors |-> 0 ]

Init ==
    /\ posts = {}
    /\ post_keywords = EmptyBag
    /\ keywords = [k \in KeywordIds |-> [is_active |-> k # 3, deleted |-> k = 3]]
    /\ rss_feeds = [f \in FeedIds |-> [ is_active |-> f # 3, region |-> Region(f),
                                        last_crawled_at |-> 0 ]]
    /\ batch_logs = <<>>
    /\ post_id_seq = 0
    /\ clock = 0
    /\ cache = [c \in Conns |-> [loaded |-> FALSE, rows |-> {}]]
    /\ tx = [c \in Conns |-> TxClosed]
    /\ run = RunStart
    /\ pf = PfIdle
    /\ sw = SwIdle
    /\ calls = <<>>

Next == Orchestrator \/ Sweeper

Spec == Init /\ [][Next]_vars


\* the batch run alone; every step of it terminates, so it keeps stepping
LiveSpec == Init /\ [][Orchestrator]_vars /\ WF_vars(Orchestrator)

(***************************************************************************)
(* Two batch processes saving at the same time, one transaction each       *)
(***************************************************************************)
\* a process calls _save_posts_and_mappings with the posts of some feed
ConcOpen(c) ==
    /\ \E doc \in FeedDocs :
          /\ _parse_feed(doc, Today) # <<>>
          /\ TxOpen(c, _parse_feed(doc, Today), Region(c))
    /\ UNCHANGED <<dbvars, clock, cache, run, pf, sw, calls>>

ConcNext == \E c \in Conns : ConcOpen(c) \/ TxStep(c)

ConcSpec == Init /\ [][ConcNext]_vars

(***************************************************************************)
(* The sweeper on stored tables, run after run, the batch run being over   *)
(***************************************************************************)
\* a stored post; the string of its post_id stands for its link digest
StoredPost(i, published_at) ==
    [ post_id |-> i, title |-> <<>>, link |-> "http://" \o ToString(i),
      link_hash |-> ToString(i), content |-> <<>>, region |-> "global",
      published_at |-> published_at ]

\* posts 1..n of keyword 1, the three oldest published the same day when tie;
\* post 1 also has the keywords in extra
CappedPosts(n, tie) ==
    {StoredPost(i, IF tie /\ i <= 3 THEN 1 ELSE i) : i \in 1..n}

CappedPairs(n, extra) ==
    {[post_id |-> i, keyword_id |-> 1] : i \in 1..n}
        \cup {[post_id |-> 1, keyword_id |-> k] : k \in extra}

\* five more posts: one without a keyword, one of keyword 3, one of keywords
\* 2 and 3, one of keywords 1 and 3, one of keyword 2
OtherPosts == {StoredPost(i, Today) : i \in {101, 102, 103, 104, 105}}

OtherPairs ==
    { [post_id |-> 102, keyword_id |-> 3],
      [post_id |-> 103, keyword_id |-> 2], [post_id |-> 103, keyword_id |-> 3],
      [post_id |-> 104, keyword_id |-> 1], [post_id |-> 104, keyword_id |-> 3],
      [post_id |-> 105, keyword_id |-> 2] }

\* the keywords table: keyword 3 switched off, keyword 2 either active or
\* soft-deleted with its flag still on
StoredKeywords(soft) ==
    [k \in KeywordIds |->
        CASE k = 1 -> [is_active |-> TRUE, deleted |-> FALSE]
          [] k = 2 -> [is_active |-> TRUE, deleted |-> soft]
          [] OTHER -> [is_active |-> FALSE, deleted |-> ~soft]]

SweepInit ==
    /\ \E n \in {1, RetainLimit, RetainLimit + 1, MaxStored}, tie \in BOOLEAN,
          extra \in SUBSET {2, 3}, others \in BOOLEAN, soft \in BOOLEAN :
          /\ posts = CappedPosts(n, tie) \cup (IF others THEN OtherPosts ELSE {})
          /\ post_keywords =
                 SetToBag(CappedPairs(n, extra) \cup (IF others THEN OtherPairs ELSE {}))
          /\ keywords = StoredKeywords(soft)
    /\ rss_feeds = [f \in FeedIds |-> [ is_active |-> f # 3, region |-> Region(f),
                                        last_crawled_at |-> 0 ]]
    /\ batch_logs = <<>>
    /\ post_id_seq = 105
    /\ clock = 0
    /\ cache = [c \in Conns |-> [loaded |-> FALSE, rows |-> {}]]
    /\ tx = [c \in Conns |-> TxClosed]
    /\ run = [RunStart EXCEPT !.pc = "done"]
    /\ pf = PfIdle
    /\ sw = [SwIdle EXCEPT !.limit = MaxSweeps + 1]
    /\ calls = <<>>

SweepSpec == SweepInit /\ [][Sweeper]_vars

(***************************************************************************)
(* _match_keywords on its own                                              *)
(***************************************************************************)
\* en_name of the keyword row passed to _match_keywords
MatchNames ==
    { <<"G", "o">>,
      <<"G", "O">>,
      <<"g", "O">>,
      <<"g", "o">>,
      <<"C">>,
      <<"R">>,
      <<"c", ".">>,
      <<"j", "s">>,
      <<"U+0130", "a">>,
      <<"N", "e", "x", "t", " ", "j", "s">>,
      <<"N", "e", "x", "t", ".", "j", "s">>,
      <<"g", "o", "l", "a", "n", "g">>,
      <<"o", "n", "-", "d", "e", "v", "i", "c", "e">> }

\* ko_name of the row: none, or one Hangul syllable
MatchKoNames == {<<>>, <<"U+ACE0">>}

\* the active_keywords list: the row under test and the row "golang"
MatchKeywords(en_name, ko_name) ==
    { [keyword_id |-> 1, en_name |-> en_name, ko_name |-> ko_name], KeywordRow(3) }

\* post_data['title']
MatchTitles ==
    { <<>>,
      <<"I", " ", "l", "o", "v", "e", " ", "g", "o", "l", "a", "n", "g">>,
      <<"l", "e", "t", "'", "s", " ", "g", "o", " ", "s", "h", "o", "p", "p", "i", "n", "g">>,
      <<"g", "o">>,
      <<"G", "O", " ", "L", "a", "n", "g", "u", "a", "g", "e">>,
      <<"g", "o", " ", "p", "r", "o", "g", "r", "a", "m", "m", "i", "n", "g">>,
      <<"g", "o", " ", "c", "o", "d", "e">>,
      <<"g", "o", "-", "c", "o", "d", "e">>,
      <<"a", "g", "o", " ", "c", "o", "d", "e">>,
      <<"g", "o", " ", "c", "o", "d", "e", "r">>,
      <<"g", "o", " ", "\t", " ", "c", "o", "d", "e">>,
      <<"g", "o", " ", "d", "e", "v", "e", "l", "o", "p", "e", "r">>,
      <<"g", "o", " ", "p", "a", "c", "k", "a", "g", "e">>,
      <<"g", "o", " ", "m", "o", "d", "u", "l", "e">>,
      <<"g", "o", " ", "r", "u", "n", "t", "i", "m", "e">>,
      <<"g", "o", " ", "g", "o", "r", "o", "u", "t", "i", "n", "e">>,
      <<"g", "o", " ", "c", "h", "a", "n", "n", "e", "l">>,
      <<"g", "o", " ", "i", "n", "t", "e", "r", "f", "a", "c", "e">>,
      <<"p", "r", "o", "g", "r", "a", "m", "m", "i", "n", "g", " ", "i", "n", " ", "g", "o">>,
      <<"w", "r", "i", "t", "t", "e", "n", " ", "i", "n", " ", "g", "o">>,
      <<"b", "u", "i", "l", "t", " ", "w", "i", "t", "h", " ", "g", "o", ".">>,
      <<"b", "u", "i", "l", "t", " ", "w", "i", "t", "h", " ", "g", "o", "p", "h", "e", "r">>,
      <<"g", "o", "l", "a", "n", "g", "s">>,
      <<"w", "r", "i", "t", "t", "e", "n", " ", "i", "n">>,
      <<"B", "u", "i", "l", "d", "i", "n", "g", " ", "w", "i", "t", "h", " ", "N", "e", "x", "t", ".", "j", "s">>,
      <<"N", "e", "x", "t", " ", "j", "s", " ", "g", "u", "i", "d", "e">>,
      <<"n", "e", "x", "t", "j", "s">>,
      <<"C">>,
      <<"c", " ", "i", "s", " ", "f", "u", "n">>,
      <<"R">>,
      <<"c", ".">>,
      <<"c", " ", ".">>,
      <<"j", "s">>,
      <<"U+0130", "a">>,
      <<"o", "n", " ", "d", "e", "v", "i", "c", "e">> }

\* post_data['content']
MatchContents ==
    { <<>>,
      <<"G", "o">>,
      <<"c", "o", "d", "e">>,
      <<"U+ACE0">> }

\* the service has loaded its keyword list and _save_posts_and_mappings holds
\* a batch of one post
MatchInit ==
    /\ posts = {}
    /\ post_keywords = EmptyBag
    /\ keywords = [k \in KeywordIds |-> [is_active |-> TRUE, deleted |-> FALSE]]
    /\ rss_feeds = [f \in FeedIds |-> [ is_active |-> f # 3, region |-> Region(f),
                                        last_crawled_at |-> 0 ]]
    /\ batch_logs = <<>>
    /\ post_id_seq = 0
    /\ clock = 0
    /\ \E en_name \in MatchNames, ko_name \in MatchKoNames :
           cache = [c \in Conns |-> [loaded |-> TRUE, rows |-> MatchKeywords(en_name, ko_name)]]
    /\ \E title \in MatchTitles, content \in MatchContents :
           tx = [c \in Conns |->
                    [TxClosed EXCEPT !.batch = << [ title |-> title, link |-> "http://a",
                                                    content |-> content,
                                                    published_at |-> Today ] >>]]
    /\ run = RunStart
    /\ pf = PfIdle
    /\ sw = SwIdle
    /\ calls = <<>>

\* matched_keyword_ids = self._match_keywords(title, content, active_keywords);
\* calls takes the call with its arguments and its result
MatchCall ==
    /\ calls = <<>>
    /\ LET post_data == tx[1].batch[1]
       IN  calls' = << [ title |-> post_data.title, content |-> post_data.content,
                         keywords |-> cache[1].rows,
                         matched_keyword_ids |->
                             _match_keywords(post_data.title, post_data.content,
                                             cache[1].rows) ] >>
    /\ UNCHANGED <<dbvars, clock, cache, tx, run, pf, sw>>

MatchSpec == MatchInit /\ [][MatchCall]_vars

(***************************************************************************)
(* _clean_text on its own                                                  *)
(***************************************************************************)
\* the longest text is made of MaxPieces pieces
MaxPieces == 3

\* pieces of text: a letter, whitespace, tags, character references, the
\* characters of markup on their own
CleanPieces ==
    { <<"a">>, <<" ">>, <<"\n">>,
      <<"<", "b", ">">>, <<"<", "/", "b", ">">>,
      <<"&", "l", "t", ";", "b", "&", "g", "t", ";">>,
      <<"<">>, <<">">>, <<"&", "a", "m", "p", ";">> }

\* the texts of at most n pieces; the empty text stands for "" and for None
RECURSIVE CleanTexts(_)
CleanTexts(n) ==
    IF n = 0 THEN {<<>>}
    ELSE LET shorter == CleanTexts(n - 1)
         IN  shorter \cup {s \o p : s \in shorter, p \in CleanPieces}

\* the feed entry whose title is the text
TextEntry(text) ==
    [ title |-> text, link |-> "http://a", summary |-> <<>>,
      published_parsed |-> Today, updated_parsed |-> Absent ]

\* the document of feed 1 holds one entry; no call has been made
CleanInit ==
    /\ posts = {}
    /\ post_keywords = EmptyBag
    /\ keywords = [k \in KeywordIds |-> [is_active |-> TRUE, deleted |-> FALSE]]
    /\ \E text \in CleanTexts(MaxPieces) :
          rss_feeds = [f \in FeedIds |-> [ is_active |-> f # 3, region |-> Region(f),
                                           last_crawled_at |-> 0,
                                           doc |-> <<TextEntry(text)>> ]]
    /\ batch_logs = <<>>
    /\ post_id_seq = 0
    /\ clock = 0
    /\ cache = [c \in Conns |-> [loaded |-> FALSE, rows |-> {}]]
    /\ tx = [c \in Conns |-> TxClosed]
    /\ run = RunStart
    /\ pf = PfIdle
    /\ sw = SwIdle
    /\ calls = <<>>

\* title = _clean_text(getattr(entry, 'title', '') or ''); calls takes the
\* call with its argument and its result
CleanCall ==
    /\ calls = <<>>
    /\ LET text == rss_feeds[1].doc[1].title
       IN  calls' = << [text |-> text, cleaned |-> _clean_text(text)] >>
    /\ UNCHANGED <<dbvars, clock, cache, tx, run, pf, sw>>

\* _clean_text applied to what it returned
CleanAgain ==
    /\ Len(calls) = 1
    /\ LET text == calls[1].cleaned
       IN  calls' = Append(calls, [text |-> text, cleaned |-> _clean_text(text)])
    /\ UNCHANGED <<dbvars, clock, cache, tx, run, pf, sw>>

CleanNext == CleanCall \/ CleanAgain

CleanSpec == CleanInit /\ [][CleanNext]_vars

(***************************************************************************)
(* _parse_feed on its own                                                  *)
(***************************************************************************)
\* the longest document has MaxExtra entries more than MAX_ITEMS_PER_FEED
MaxExtra == 2

\* published_parsed and updated_parsed of an entry: missing, not convertible,
\* a day older than the cutoff, the day of the cutoff, today
ParseStamps == {Absent, Unparsable, Today - OneYearDays - 1, Today - OneYearDays, Today}

\* the number of entries of a document
ParseLens == {0, 1} \cup ((MAX_ITEMS_PER_FEED - 1)..(MAX_ITEMS_PER_FEED + MaxExtra))

\* entry i of a document whose entries carry the stamps odd and even in turn
StampedEntry(i, stamps) ==
    [ title |-> <<>>, link |-> "http://" \o ToString(i), summary |-> <<>>,
      published_parsed |-> stamps[1], updated_parsed |-> stamps[2] ]

\* feed.entries of a document of n entries
ParseDoc(n, odd, even) ==
    [i \in 1..n |-> StampedEntry(i, IF i % 2 = 1 THEN odd ELSE even)]

\* feed 1 serves a document; _process_feed has not started
ParseInit ==
    /\ posts = {}
    /\ post_keywords = EmptyBag
    /\ keywords = [k \in KeywordIds |-> [is_active |-> TRUE, deleted |-> FALSE]]
    /\ \E n \in ParseLens, odd \in ParseStamps \X ParseStamps,
          even \in ParseStamps \X ParseStamps :
          rss_feeds = [f \in FeedIds |-> [ is_active |-> f # 3, region |-> Region(f),
                                           last_crawled_at |-> 0,
                                           doc |-> ParseDoc(n, odd, even) ]]
    /\ batch_logs = <<>>
    /\ post_id_seq = 0
    /\ clock = 0
    /\ cache = [c \in Conns |-> [loaded |-> FALSE, rows |-> {}]]
    /\ tx = [c \in Conns |-> TxClosed]
    /\ run = RunStart
    /\ pf = PfIdle
    /\ sw = SwIdle
    /\ calls = <<>>

\* posts = _parse_feed(url); collected = len(posts)
ParseCall ==
    /\ pf.pc = "idle"
    /\ LET parsed == _parse_feed(rss_feeds[1].doc, Today)
       IN  pf' = [PfIdle EXCEPT !.pc = "save", !.feed_id = 1,
                                !.region = rss_feeds[1].region,
                                !.posts = parsed, !.collected = Len(parsed)]
    /\ UNCHANGED <<dbvars, clock, cache, tx, run, sw, calls>>

ParseSpec == ParseInit /\ [][ParseCall]_vars

(***************************************************************************)
(* The batch run beside the keyword management                             *)
(***************************************************************************)
\* the keywords table when the run starts
KeywordsAtStart == [k \in KeywordIds |-> [is_active |-> k # 3, deleted |-> k = 3]]

\* a post an earlier run stored under the link http://a, with a pair of
\* keyword 2; its title names the keyword Go, of which it has no pair
EarlierPost ==
    [ title |-> <<"g", "o", "l", "a", "n", "g">>, content |-> <<>>, link |-> "http://a",
      published_at |-> Today, region |-> "korean",
      link_hash |-> sha256_hexdigest("http://a"), post_id |-> 1 ]

EarlierPair == [post_id |-> 1, keyword_id |-> 2]

\* a new service instance before run(), on empty tables or on the tables an
\* earlier run left
AdminInit ==
    /\ \E stored \in BOOLEAN :
          /\ posts = IF stored THEN {EarlierPost} ELSE {}
          /\ post_keywords = IF stored THEN SetToBag({EarlierPair}) ELSE EmptyBag
          /\ post_id_seq = IF stored THEN 1 ELSE 0
    /\ keywords = KeywordsAtStart
    /\ rss_feeds = [f \in FeedIds |-> [ is_active |-> f # 3, region |-> Region(f),
                                        last_crawled_at |-> 0 ]]
    /\ batch_logs = <<>>
    /\ clock = 0
    /\ cache = [c \in Conns |-> [loaded |-> FALSE, rows |-> {}]]
    /\ tx = [c \in Conns |-> TxClosed]
    /\ run = RunStart
    /\ pf = PfIdle
    /\ sw = SwIdle
    /\ calls = <<>>

\* the keyword management changes one row of keywords while the run is in
\* progress: it switches the flag, soft-deletes or restores the keyword
KeywordAdmin ==
    /\ run.pc = "loop"
    /\ keywords = KeywordsAtStart
    /\ \E k \in KeywordIds, row \in [is_active : BOOLEAN, deleted : BOOLEAN] :
          /\ row # keywords[k]
          /\ keywords' = [keywords EXCEPT ![k] = row]
    /\ UNCHANGED <<posts, post_keywords, rss_feeds, batch_logs, post_id_seq,
                   clock, cache, tx, run, pf, sw, calls>>

AdminNext == Orchestrator \/ KeywordAdmin

AdminSpec == AdminInit /\ [][AdminNext]_vars

(***************************************************************************)
(* Properties                                                              *)
(***************************************************************************)
\* the links of a batch
BatchLinks(batch) == {batch[i].link : i \in 1..Len(batch)}

HasRepeatedLink(batch) ==
    \E i, j \in 1..Len(batch) : i # j /\ batch[i].link = batch[j].link

\* rows of batch_logs with a job type and a status
LogRows(job_type, status) ==
    {i \in 1..Len(batch_logs) :
        batch_logs[i].job_type = job_type /\ batch_logs[i].status = status}

CrawlerRows == LogRows("RSS_CRAWLER", "SUCCESS") \cup LogRows("RSS_CRAWLER", "FAILED")

\* C1: every call of _save_posts_and_mappings that returns, for the empty batch
\* and for batches with repeated links too, returns counts that are not
\* negative and add up to the number of candidates.
C1_CountsAddUp ==
    \A i \in 1..Len(calls) :
        calls[i].ok =>
            /\ calls[i].new_count + calls[i].duplicate_count = Len(calls[i].batch)
            /\ calls[i].new_count >= 0
            /\ calls[i].duplicate_count >= 0

\* a call returned for the empty batch and a call returned for a batch that
\* holds one link twice
C1_Witness ==
    \E i, j \in 1..Len(calls) :
        /\ calls[i].ok /\ calls[i].batch = <<>>
        /\ calls[j].ok /\ HasRepeatedLink(calls[j].batch)

\* C2: the second of two successive calls with the same batch, with storage
\* untouched in between, returns (0, len(batch)) and changes neither table.
C2_SecondCallAllDuplicates ==
    \A i \in 1..(Len(calls) - 1) :
        ( /\ calls[i].ok
          /\ calls[i + 1].ok
          /\ calls[i + 1].batch = calls[i].batch
          /\ calls[i + 1].before = calls[i].after )
        => /\ calls[i + 1].new_count = 0
           /\ calls[i + 1].duplicate_count = Len(calls[i].batch)
           /\ calls[i + 1].after = calls[i + 1].before

\* the fingerprints of a batch that were not stored when the call began
FreshHashes(call) ==
    Range(LinkHashes(call.batch)) \ {r.link_hash : r \in call.before.posts}

\* C3: of the candidates of one batch that share a link not stored yet, the
\* first counts as new and the others as duplicates, and one post row results.
C3_RepeatedLinkCountsOnce ==
    \A i \in 1..Len(calls) :
        calls[i].ok =>
            /\ calls[i].new_count = Cardinality(FreshHashes(calls[i]))
            /\ calls[i].duplicate_count =
                   Len(calls[i].batch) - Cardinality(FreshHashes(calls[i]))
            /\ \A h \in FreshHashes(calls[i]) :
                   Cardinality({r \in calls[i].after.posts : r.link_hash = h}) = 1

\* no two rows with one link_hash
UniqueLinkHash(P) == \A r1, r2 \in P : r1.link_hash = r2.link_hash => r1 = r2

\* C4: whatever saves and sweeper runs came before, no two stored posts share
\* a fingerprint, and saving a batch that holds a stored fingerprint neither
\* fails on the unique index nor adds a second row.
C4_FingerprintUnique ==
    /\ UniqueLinkHash(posts)
    /\ \A c \in Conns : UniqueLinkHash(Visible(c)) /\ tx[c].error # "UniqueViolation"

\* after a sweeper run a call returned that found a fingerprint stored
C4_Witness ==
    /\ sw.runs >= 1
    /\ posts # {}
    /\ \E i \in 1..Len(calls) : calls[i].ok /\ calls[i].duplicate_count >= 1

\* C5: when _save_posts_and_mappings raises after it opened its transaction,
\* posts and post_keywords are what they were before the call, and
\* _process_feed sees the exception.
C5_FailureRollsBack ==
    /\ tx[1].pc = "raised" => Snapshot = tx[1].before
    /\ \A i \in 1..Len(calls) : ~calls[i].ok => calls[i].after = calls[i].before
    /\ (pf.pc = "log" /\ calls # <<>> /\ ~calls[Len(calls)].ok /\ pf.posts # <<>>)
           => pf.status = "FAILED" /\ pf.error_message # "None"

\* the transaction raised after its INSERT INTO posts had handed out a post_id
C5_Witness ==
    /\ tx[1].pc = "raised"
    /\ sw.runs = 0
    /\ \E id \in 1..post_id_seq : \A r \in posts : r.post_id # id

RunInOrder ==
    run.pc \in {"loop", "done"} =>
        /\ pf.pc # "idle" =>
              /\ run.idx <= Len(run.feeds)
              /\ pf.feed_id = run.feeds[run.idx]
              /\ clock = run.idx
        /\ pf.pc = "idle" => clock = run.idx - 1
        /\ run.success_count + run.fail_count = run.idx - 1
        /\ run.pc = "done" =>
              /\ run.idx = Len(run.feeds) + 1
              /\ run.success_count + run.fail_count = Len(run.feeds)

\* C7: once the feed list is read, run takes every active feed once, in list
\* order, whatever fails in a feed, and reaches its summary with
\* success_count + fail_count equal to the number of feeds.
C7_RunReachesSummary ==
    /\ []RunInOrder
    /\ (run.pc = "loop") ~> (run.pc = "done")

\* the summary was reached although every feed failed
C7_Witness ==
    /\ run.pc = "done"
    /\ Len(run.feeds) = 2
    /\ run.fail_count = 2

\* C8: at the summary, fail_count is the number of attempts logged FAILED and
\* success_count the number logged SUCCESS.
C8_CountsMatchLog ==
    run.pc = "done" =>
        /\ run.fail_count = Cardinality(LogRows("RSS_CRAWLER", "FAILED"))
        /\ run.success_count = Cardinality(LogRows("RSS_CRAWLER", "SUCCESS"))

\* C9: when run moves on from a feed, the feed's last_crawled_at was set
\* during the attempt (attempt j starts at clock j).
C9_TouchedOnEveryExit ==
    (run.pc \in {"loop", "done"} /\ pf.pc = "idle") =>
        \A j \in 1..(run.idx - 1) : rss_feeds[run.feeds[j]].last_crawled_at = j

\* C10 as stated: every finished attempt has appended one RSS_CRAWLER row.
C10_OneRowPerAttempt ==
    (run.pc \in {"loop", "done"} /\ pf.pc = "idle") =>
        Cardinality(CrawlerRows) = run.idx - 1

\* the row of the attempt in progress is the last row, and says what happened
AttemptRow ==
    pf.pc = "touch" =>
        /\ batch_logs # <<>>
        /\ LET row == batch_logs[Len(batch_logs)]
           IN  /\ row.job_type = "RSS_CRAWLER"
               /\ row.detail.feed_id = pf.feed_id
               /\ pf.raised =>
                     /\ row.status = "FAILED"
                     /\ row.log_level = "ERROR"
                     /\ row.error_message # "None"
               /\ ~pf.raised =>
                     /\ row.status = "SUCCESS"
                     /\ row.log_level = "INFO"
                     /\ row.error_message = "None"

\* one row per attempt whose _log_batch returned
RowsCounted ==
    run.pc \in {"loop", "done"} =>
        Cardinality(CrawlerRows) =
            clock - run.log_errors - (IF pf.pc \in {"save", "persist", "log"} THEN 1 ELSE 0)

\* rows are only appended; an RSS_CRAWLER row is appended by the step from
\* "log" to "touch", with the transaction closed and the feed not touched yet
AppendOnly ==
    /\ Len(batch_logs') >= Len(batch_logs)
    /\ SubSeq(batch_logs', 1, Len(batch_logs)) = batch_logs
    /\ Len(batch_logs') <= Len(batch_logs) + 1
    /\ ( /\ Len(batch_logs') = Len(batch_logs) + 1
         /\ batch_logs'[Len(batch_logs')].job_type = "RSS_CRAWLER" )
       => /\ pf.pc = "log" /\ pf'.pc = "touch"
          /\ tx[1].pc = "closed"
          /\ rss_feeds[pf.feed_id].last_crawled_at # clock
          /\ rss_feeds' = rss_feeds

\* C10: every attempt appends at most one RSS_CRAWLER row, and exactly one
\* when _log_batch does not raise; the row is written after the save has
\* finished and before the touch; it is FAILED/ERROR with an error text when
\* fetch, extract or persist raised, and SUCCESS/INFO without one otherwise;
\* rows of batch_logs are never changed or removed.
C10_OneRowUnlessLogFails ==
    /\ [](AttemptRow /\ RowsCounted)
    /\ [][AppendOnly]_vars

\* a FAILED row and a SUCCESS row were written, a sweeper row between them
C10_Witness ==
    /\ pf.pc = "touch"
    /\ LogRows("RSS_CRAWLER", "FAILED") # {}
    /\ LogRows("RSS_CRAWLER", "SUCCESS") # {}
    /\ LogRows("CLEANUP_OLD_POSTS", "SUCCESS") # {}

(***************************************************************************)
(* Properties of the sweeper                                               *)
(***************************************************************************)
\* the pairs of the post with post_id i
PairsOf(K, i) == {pk \in BagToSet(K) : pk.post_id = i}

\* active as ingestion understands it
TrulyActive(k) == keywords[k].is_active /\ ~keywords[k].deleted

\* the cap of keyword sw.last_kw has just been committed
JustCapped == sw.pc \in {"cap", "zombie"} /\ sw.last_kw # 0

CleanupRows ==
    LogRows("CLEANUP_OLD_POSTS", "SUCCESS") \cup LogRows("CLEANUP_OLD_POSTS", "FAILED")

\* C11: the cap of a keyword with n posts removes max(0, n - 30) pairs, all of
\* that keyword and to its oldest posts, and leaves at most 30; an overflow
\* post is deleted exactly when it had no pair of another keyword, and every
\* pair of another keyword stays; when the pass ends every active keyword has
\* at most 30 posts.
C11_CapPass ==
    /\ JustCapped =>
          LET k         == sw.last_kw
              b         == sw.prev
              had       == {p \in b.posts :
                               [post_id |-> p.post_id, keyword_id |-> k]
                                   \in BagToSet(b.post_keywords)}
              n         == Cardinality(had)
              gonePairs == BagToSet(b.post_keywords) \ BagToSet(post_keywords)
              overflow  == {p \in had :
                               [post_id |-> p.post_id, keyword_id |-> k] \in gonePairs}
          IN  /\ \A pk \in gonePairs : pk.keyword_id = k
              /\ Cardinality(gonePairs) = IF n > 30 THEN n - 30 ELSE 0
              /\ \A p \in overflow, q \in had \ overflow : p.published_at <= q.published_at
              /\ Cardinality(had \ overflow) <= 30
              /\ b.posts \ posts \subseteq overflow
              /\ \A p \in overflow :
                    p \notin posts <=>
                        \A pk \in PairsOf(b.post_keywords, p.post_id) : pk.keyword_id = k
    /\ sw.pc = "zombie" =>
          \A k \in KeywordIds :
              TrulyActive(k) =>
                  Cardinality({pk \in BagToSet(post_keywords) :
                                  pk.keyword_id = k
                                  /\ \E p \in posts : p.post_id = pk.post_id}) <= 30

\* the cap took two pairs away, deleted one of the two posts and kept the
\* other, which has a pair of another keyword
C11_Witness ==
    /\ JustCapped
    /\ Cardinality(BagToSet(sw.prev.post_keywords) \ BagToSet(post_keywords)) >= 2
    /\ sw.prev.posts \ posts # {}
    /\ \E p \in posts :
          /\ [post_id |-> p.post_id, keyword_id |-> sw.last_kw]
                 \in BagToSet(sw.prev.post_keywords) \ BagToSet(post_keywords)
          /\ PairsOf(post_keywords, p.post_id) # {}

\* C12: the zombie pass deletes the posts that had no pair when it began and
\* no other post, and deletes no pair.
C12_ZombiePass ==
    sw.pc = "inactive" =>
        /\ sw.prev.posts \ posts =
               {p \in sw.prev.posts : PairsOf(sw.prev.post_keywords, p.post_id) = {}}
        /\ posts \subseteq sw.prev.posts
        /\ post_keywords = sw.prev.post_keywords

\* the pass deleted a post and left a post whose one pair is of an active keyword
C12_Witness ==
    /\ sw.pc = "inactive"
    /\ sw.prev.posts \ posts # {}
    /\ \E p \in posts :
          /\ Cardinality(PairsOf(post_keywords, p.post_id)) = 1
          /\ \A pk \in PairsOf(post_keywords, p.post_id) : TrulyActive(pk.keyword_id)

\* C13: the inactive-only pass deletes, with its pairs, every post whose pairs
\* are all of keywords that are switched off, and leaves a post that has a
\* pair of an active keyword, and all its pairs, alone.
C13_InactiveOnlyPass ==
    sw.pc = "log" =>
        \A p \in sw.prev.posts :
            LET prs == PairsOf(sw.prev.post_keywords, p.post_id)
            IN  /\ (prs # {} /\ \A pk \in prs : ~keywords[pk.keyword_id].is_active)
                       => (p \notin posts /\ PairsOf(post_keywords, p.post_id) = {})
                /\ (\E pk \in prs : TrulyActive(pk.keyword_id))
                       => (p \in posts /\ PairsOf(post_keywords, p.post_id) = prs)

\* C14: a keyword that is soft-deleted with its flag on is not capped, and a
\* post whose pairs are all of soft-deleted keywords is deleted by the
\* inactive-only pass.
C14_SoftDeletedIsInactive ==
    /\ sw.pc = "cap" => \A i \in 1..Len(sw.kws) : ~keywords[sw.kws[i]].deleted
    /\ sw.pc = "log" =>
          \A p \in sw.prev.posts :
              LET prs == PairsOf(sw.prev.post_keywords, p.post_id)
              IN  (prs # {} /\ \A pk \in prs : keywords[pk.keyword_id].deleted)
                      => p \notin posts

\* a statement of a pass raises
PassFails ==
    /\ sw.pc \in {"keywords", "cap", "zombie", "inactive"}
    /\ sw'.pc = "idle"

\* C15: when a statement of a pass raises, the tables are left as the last
\* commit left them (what the pass had deleted is back, what earlier passes
\* committed stays deleted), the run is over without a further pass, and it
\* ends with the exception; the row written, if any, is FAILED.
C15_PassFailure ==
    [][ PassFails =>
           /\ posts' = posts
           /\ post_keywords' = post_keywords
           /\ sw.before.posts \ posts' = sw.before.posts \ posts
           /\ sw'.raised
           /\ sw'.runs = sw.runs + 1
           /\ batch_logs' # batch_logs =>
                  batch_logs'[Len(batch_logs')].status = "FAILED" ]_vars

\* a run ended with an exception after it had committed the deletion of a post
\* and a pair, and the rollback took a deleted post back
C15_Witness ==
    /\ sw.pc = "idle"
    /\ sw.raised
    /\ sw.undone >= 1
    /\ batch_logs # <<>>
    /\ LET row == batch_logs[Len(batch_logs)]
       IN  /\ row.status = "FAILED"
           /\ row.detail.total_deleted_posts >= 1
           /\ row.detail.total_deleted_mappings >= 1

\* C16 as stated: every finished sweeper run has appended one row.
C16_OneRowPerRun ==
    sw.pc = "idle" => Cardinality(CleanupRows) = sw.runs

\* the step that appends a CLEANUP_OLD_POSTS row ends a run, and the row
\* tells how the run ended and what it deleted for good
CleanupRowRight ==
    ( /\ Len(batch_logs') = Len(batch_logs) + 1
      /\ batch_logs'[Len(batch_logs')].job_type = "CLEANUP_OLD_POSTS" )
    => LET row == batch_logs'[Len(batch_logs')]
       IN  /\ sw.pc # "idle" /\ sw'.pc = "idle" /\ sw'.runs = sw.runs + 1
           /\ row.detail.total_deleted_posts = Cardinality(sw.before.posts \ posts')
           /\ row.affected_count = row.detail.total_deleted_posts
           /\ row.detail.total_deleted_mappings =
                  BagCardinality(sw.before.post_keywords) - BagCardinality(post_keywords')
           /\ row.status \in {"SUCCESS", "FAILED"}
           /\ row.status = "SUCCESS" =>
                  /\ sw.pc = "log" /\ ~sw'.raised
                  /\ row.log_level = "INFO" /\ row.error_message = "None"
           /\ row.status = "FAILED" =>
                  /\ sw'.raised
                  /\ row.log_level = "ERROR" /\ row.error_message # "None"
           /\ sw.pc # "log" => row.status = "FAILED"

\* C16: every sweeper run appends at most one CLEANUP_OLD_POSTS row, and one
\* when its _log_batch does not raise: SUCCESS with the final totals when the
\* three passes and the log write went through, FAILED with an error text
\* when a pass or the SUCCESS log write raised; the totals of the row are the
\* deletions of posts and pairs the run committed.
C16_OneRowUnlessLogFails ==
    /\ [](sw.pc = "idle" => Cardinality(CleanupRows) = sw.runs - sw.log_errors)
    /\ [][CleanupRowRight]_vars

\* a FAILED row and then a SUCCESS row, each with deletions to report
C16_Witness ==
    \E i, j \in 1..Len(batch_logs) :
        /\ i < j
        /\ batch_logs[i].job_type = "CLEANUP_OLD_POSTS" /\ batch_logs[i].status = "FAILED"
        /\ batch_logs[i].detail.total_deleted_mappings >= 1
        /\ batch_logs[j].job_type = "CLEANUP_OLD_POSTS" /\ batch_logs[j].status = "SUCCESS"
        /\ batch_logs[j].detail.total_deleted_posts >= 1

\* C17: a run that starts right after a run that returned deletes nothing,
\* and each pass, applied again to the tables it has just left, selects
\* nothing, posts of equal published_at included.
C17_SweepIdempotent ==
    /\ (sw.after_success /\ sw.pc # "idle") => Snapshot = sw.before
    /\ JustCapped => OldPostSets(posts, post_keywords, sw.last_kw) = {{}}
    /\ sw.pc = "inactive" => ZombiePosts(posts, post_keywords) = {}
    /\ sw.pc = "log" => PostsWithoutActiveKeywords(posts, post_keywords, keywords) = {}

\* the second run has done its three passes; the first had deleted posts, and
\* two posts left share their published_at
C17_Witness ==
    /\ sw.after_success
    /\ sw.pc = "log"
    /\ batch_logs # <<>>
    /\ batch_logs[Len(batch_logs)].detail.total_deleted_posts >= 2
    /\ \E p, q \in posts : p # q /\ p.published_at = q.published_at /\ p.published_at = 1


(***************************************************************************)
(* Properties of the matcher                                               *)
(***************************************************************************)
\* a word of s begins at p
WordStart(s, p) == WordAt(s, p) /\ ~WordAt(s, p - 1)

\* the last position of the word of s that holds p
RECURSIVE WordEnd(_, _)
WordEnd(s, p) == IF WordAt(s, p + 1) THEN WordEnd(s, p + 1) ELSE p

\* the position of the word of s that comes after position e with whitespace
\* only between them, or 0
RECURSIVE NextWord(_, _, _)
NextWord(s, e, p) ==
    IF p > Len(s) THEN 0
    ELSE IF IsSpace(s[p]) THEN NextWord(s, e, p + 1)
    ELSE IF WordAt(s, p) /\ p > e + 1 THEN p
    ELSE 0

\* the words of a phrase written with single blanks
RECURSIVE PhraseWords(_, _)
PhraseWords(phrase, acc) ==
    IF phrase = <<>> THEN <<acc>>
    ELSE IF Head(phrase) = " " THEN <<acc>> \o PhraseWords(Tail(phrase), <<>>)
    ELSE PhraseWords(Tail(phrase), Append(acc, Head(phrase)))

\* the contextual phrases of the Go language
GoPhrases ==
    { <<"g", "o", "l", "a", "n", "g">>,
      <<"g", "o", " ", "p", "r", "o", "g", "r", "a", "m", "m", "i", "n", "g">>,
      <<"g", "o", " ", "l", "a", "n", "g", "u", "a", "g", "e">>,
      <<"g", "o", " ", "c", "o", "d", "e">>,
      <<"g", "o", " ", "d", "e", "v", "e", "l", "o", "p", "e", "r">>,
      <<"g", "o", " ", "p", "a", "c", "k", "a", "g", "e">>,
      <<"g", "o", " ", "m", "o", "d", "u", "l", "e">>,
      <<"g", "o", " ", "r", "u", "n", "t", "i", "m", "e">>,
      <<"g", "o", " ", "g", "o", "r", "o", "u", "t", "i", "n", "e">>,
      <<"g", "o", " ", "c", "h", "a", "n", "n", "e", "l">>,
      <<"g", "o", " ", "i", "n", "t", "e", "r", "f", "a", "c", "e">>,
      <<"p", "r", "o", "g", "r", "a", "m", "m", "i", "n", "g", " ", "i", "n", " ", "g", "o">>,
      <<"w", "r", "i", "t", "t", "e", "n", " ", "i", "n", " ", "g", "o">>,
      <<"b", "u", "i", "l", "t", " ", "w", "i", "t", "h", " ", "g", "o">> }

\* the words ws[k..] are the words of s from the one that begins at p on
RECURSIVE WordsFrom(_, _, _, _)
WordsFrom(s, p, ws, k) ==
    LET e == WordEnd(s, p)
    IN  /\ SubSeq(s, p, e) = ws[k]
        /\ \/ k = Len(ws)
           \/ LET q == NextWord(s, e, e + 1)
              IN  q # 0 /\ WordsFrom(s, q, ws, k + 1)

\* s holds the words of the phrase as whole words, one after the other
HoldsPhrase(s, phrase) ==
    \E p \in 1..Len(s) :
        WordStart(s, p) /\ WordsFrom(s, p, PhraseWords(phrase, <<>>), 1)

HasGoContext(title, content) ==
    \E phrase \in GoPhrases : HoldsPhrase(Lower(title \o <<" ">> \o content), phrase)

\* the Korean name of the row is not in the title nor in the content
KoNameAbsent(c, kw) ==
    kw.ko_name = <<>> \/ (~Contains(c.title, kw.ko_name) /\ ~Contains(c.content, kw.ko_name))

\* the name is "Go" in some letter case
NamedGo(kw) ==
    /\ Len(kw.en_name) = 2
    /\ kw.en_name[1] \in {"g", "G"}
    /\ kw.en_name[2] \in {"o", "O"}

\* C18: a keyword named "Go" in any letter case, whose Korean name is not
\* in the text, is matched exactly when the lower-cased title and body hold
\* one of the contextual phrases as whole words; "I love golang" is matched
\* and "let's go shopping" is not.
C18_GoNeedsContext ==
    \A i \in 1..Len(calls) : \A kw \in calls[i].keywords :
        (NamedGo(kw) /\ KoNameAbsent(calls[i], kw)) =>
            /\ kw.keyword_id \in calls[i].matched_keyword_ids
                   <=> HasGoContext(calls[i].title, calls[i].content)
            /\ calls[i].title = <<"I", " ", "l", "o", "v", "e", " ", "g", "o", "l", "a", "n", "g">> /\ calls[i].content = <<>>
                   => kw.keyword_id \in calls[i].matched_keyword_ids
            /\ calls[i].title = <<"l", "e", "t", "'", "s", " ", "g", "o", " ", "s", "h", "o", "p", "p", "i", "n", "g">> /\ calls[i].content = <<>>
                   => kw.keyword_id \notin calls[i].matched_keyword_ids

\* a "GO" row was matched by a phrase that runs from the title into the body
C18_Witness ==
    /\ Len(calls) = 1
    /\ calls[1].title = <<"w", "r", "i", "t", "t", "e", "n", " ", "i", "n">>
    /\ calls[1].content = <<"G", "o">>
    /\ \E kw \in calls[1].keywords :
           /\ kw.en_name = <<"G", "O">>
           /\ kw.ko_name = <<"U+ACE0">>
           /\ kw.keyword_id \in calls[1].matched_keyword_ids

\* C19: the row named "Next js" is matched in "Building with Next.js".
C19_SpaceNameMatchesDot ==
    \A i \in 1..Len(calls) : \A kw \in calls[i].keywords :
        (kw.en_name = <<"N", "e", "x", "t", " ", "j", "s">> /\ calls[i].title = <<"B", "u", "i", "l", "d", "i", "n", "g", " ", "w", "i", "t", "h", " ", "N", "e", "x", "t", ".", "j", "s">>)
            => kw.keyword_id \in calls[i].matched_keyword_ids

\* C20: a row whose English name has at most two characters, none of them a
\* blank or a hyphen, and whose Korean name is not in the text, is never
\* matched ("Go" being taken without a contextual phrase).
C20_ShortNameNeverMatches ==
    \A i \in 1..Len(calls) : \A kw \in calls[i].keywords :
        ( /\ Len(kw.en_name) <= 2
          /\ " " \notin Range(kw.en_name)
          /\ "-" \notin Range(kw.en_name)
          /\ KoNameAbsent(calls[i], kw)
          /\ (NamedGo(kw) => ~HasGoContext(calls[i].title, calls[i].content)) )
            => kw.keyword_id \notin calls[i].matched_keyword_ids


(***************************************************************************)
(* Properties of the text normalizer and of the feed entry extractor       *)
(***************************************************************************)
\* C21: _clean_text gives the empty text for the empty or absent text, and
\* applied to its own result it gives that result again.
C21_CleanIdempotent ==
    /\ \A i \in 1..Len(calls) : calls[i].text = <<>> => calls[i].cleaned = <<>>
    /\ Len(calls) = 2 => calls[2].cleaned = calls[1].cleaned


\* the timestamp of a feed entry: the published one, the updated one when
\* there is no published one
EntryStamp(entry) ==
    IF entry.published_parsed # Absent THEN entry.published_parsed
    ELSE entry.updated_parsed

\* the entry has a timestamp that converts and is not older than the cutoff
InsideCutoff(entry) ==
    /\ EntryStamp(entry) \notin {Absent, Unparsable}
    /\ EntryStamp(entry) >= Today - OneYearDays

\* C22: the list _parse_feed returns is made, in the order of the document,
\* of those of the first MAX_ITEMS_PER_FEED entries whose timestamp
\* (published, else updated) converts and is not older than the cutoff; its
\* length is the collected count and is at most MAX_ITEMS_PER_FEED.
C22_ParseSubsequence ==
    pf.pc = "save" =>
        LET doc  == rss_feeds[1].doc
            head == [i \in 1..(IF Len(doc) < MAX_ITEMS_PER_FEED THEN Len(doc)
                               ELSE MAX_ITEMS_PER_FEED) |-> doc[i]]
            kept == SelectSeq(head, InsideCutoff)
        IN  /\ Len(pf.posts) = Len(kept)
            /\ \A i \in 1..Len(kept) :
                  /\ pf.posts[i].link = kept[i].link
                  /\ pf.posts[i].published_at = EntryStamp(kept[i])
            /\ pf.collected = Len(pf.posts)
            /\ Len(pf.posts) <= MAX_ITEMS_PER_FEED

\* a document longer than MAX_ITEMS_PER_FEED was parsed, and every second one
\* of its entries was skipped
C22_Witness ==
    /\ pf.pc = "save"
    /\ Len(rss_feeds[1].doc) > MAX_ITEMS_PER_FEED
    /\ pf.collected * 2 = MAX_ITEMS_PER_FEED
    /\ pf.posts[1].link = "http://2"


(***************************************************************************)
(* Properties of stored posts and their pairs                              *)
(***************************************************************************)
\* the posts a finished call of _save_posts_and_mappings has inserted
InsertedBy(call) == call.after.posts \ call.before.posts

\* C23: after a committed call of _save_posts_and_mappings every post the
\* call inserted has a pair.
C23_NoPostWithoutPair ==
    \A i \in 1..Len(calls) :
        calls[i].ok =>
            \A p \in InsertedBy(calls[i]) :
                PairsOf(calls[i].after.post_keywords, p.post_id) # {}


\* C27: the pairs a committed call inserts for a post it inserted are those
\* of the keywords that match the title and the content stored in the post's
\* row.
C27_PairsFollowStoredText ==
    \A i \in 1..Len(calls) :
        calls[i].ok =>
            \A p \in InsertedBy(calls[i]) :
                {pk.keyword_id : pk \in PairsOf(calls[i].after.post_keywords, p.post_id)}
                    = _match_keywords(p.title, p.content, SelectActiveKeywords(keywords))


PostsOfKeyword(K, k) == {pk.post_id : pk \in {x \in BagToSet(K) : x.keyword_id = k}}

KeptByStep(p) ==
    /\ p \in posts'
    /\ \A pk \in [post_id : {p.post_id}, keyword_id : KeywordIds] :
          CopiesIn(pk, post_keywords') = CopiesIn(pk, post_keywords)

\* C24: no step of the batch run changes or removes a stored post (title,
\* link, content, region, published time) or changes the pairs it has, also
\* when a batch brings its link again with another text and when keywords
\* that are active now match it.
C24_StoredPostsKept == [][\A p \in posts : KeptByStep(p)]_vars

\* a call was committed whose batch brought the link of the earlier post with
\* another title, while the active keyword Go matches the earlier post's
\* title and the post has no pair of it
C24_Witness ==
    \E i \in 1..Len(calls) :
        /\ calls[i].ok
        /\ EarlierPost \in calls[i].before.posts
        /\ \E j \in 1..Len(calls[i].batch) :
              /\ calls[i].batch[j].link = EarlierPost.link
              /\ calls[i].batch[j].title # EarlierPost.title
        /\ 1 \in _match_keywords(EarlierPost.title, EarlierPost.content,
                                 SelectActiveKeywords(keywords))
        /\ PairsOf(post_keywords, 1) = {EarlierPair}

\* C26: once the service has its keyword list the list never changes, so the
\* table is read once at most; the list is set by the query of a call with a
\* batch that is not empty; every later statement of a call works with the
\* list; a query that raises leaves the service without a list.
C26_KeywordsReadOnce ==
    /\ [](tx[1].pc \in {"select", "insert", "assoc", "commit"} =>
            /\ cache[1].loaded
            /\ tx[1].active_keywords = cache[1].rows
            /\ \A pk \in BagToSet(tx[1].ins_pks) :
                  \E kw \in cache[1].rows : kw.keyword_id = pk.keyword_id)
    /\ [][ /\ cache[1].loaded => cache'[1] = cache[1]
           /\ (~cache[1].loaded /\ cache'[1].loaded) =>
                  /\ tx[1].pc = "keywords"
                  /\ tx[1].batch # <<>>
                  /\ cache'[1].rows = SelectActiveKeywords(keywords)
           /\ (tx[1].pc = "keywords" /\ tx'[1].pc = "raised") =>
                  ~cache'[1].loaded ]_vars

\* the first call read the list and was committed, the table was changed,
\* and the second call is about to commit pairs found with that list
C26_Witness ==
    /\ tx[1].pc = "commit"
    /\ tx[1].ins_pks # EmptyBag
    /\ cache[1].rows # SelectActiveKeywords(keywords)
    /\ Len(calls) = 1
    /\ calls[1].ok
    /\ calls[1].batch # <<>>


\* the positions of the batch whose link_hash is stored when the call begins
StoredCandidates(call) ==
    {j \in 1..Len(call.batch) :
        \E p \in call.before.posts : p.link_hash = sha256_hexdigest(call.batch[j].link)}

\* C29: a committed call counts as duplicates the candidates whose link_hash
\* is stored when the call begins and as new the other ones, and it inserts a
\* post for each of the other ones, whether or not the link was stored and
\* swept before.
C29_DuplicateIffStored ==
    \A i \in 1..Len(calls) :
        calls[i].ok =>
            /\ calls[i].duplicate_count = Cardinality(StoredCandidates(calls[i]))
            /\ calls[i].new_count =
                   Len(calls[i].batch) - Cardinality(StoredCandidates(calls[i]))
            /\ \A j \in (1..Len(calls[i].batch)) \ StoredCandidates(calls[i]) :
                  \E p \in InsertedBy(calls[i]) :
                      p.link_hash = sha256_hexdigest(calls[i].batch[j].link)

=============================================================================
